---- MODULE Spec2Model ----
(***************************************************************************)
(* Model of btc_tx_decoder (Assignment3/btc_tx_decoder/src/main.rs): a     *)
(* single-pass decoder of a raw Bitcoin transaction given as hex text.     *)
(*                                                                         *)
(* Text is a sequence of one-character strings, a byte buffer a sequence   *)
(* of 0..255 (index k of the code is index k+1 here), and a usize (64 bit) *)
(* a Word: its eight bytes, least significant first, so that the sums the  *)
(* code computes overflow exactly where a 64-bit sum does.                 *)
(***************************************************************************)
EXTENDS Integers, Sequences, FiniteSets, TLC

\* ------------------------------------------------------------ constants
TxidLen == 32
VoutLen == 4
SequenceLen == 4
AmountLen == 8
VersionLen == 4
LocktimeLen == 4
MarkerFlagLen == 2
MaxSingleByte == 252
WordBytes == 8
ByteBase == 256

\* ------------------------------------------------------------ bounds
MaxIn == 2
MaxOut == 2
MaxItems == 2
MaxTail == 8

\* ------------------------------------------------------------ words (usize)
ZeroWord == [k \in 1..WordBytes |-> 0]

\* a (small) natural number as a usize
NatToWord(n) ==
    LET RECURSIVE P(_, _)
        P(k, q) == IF k > WordBytes THEN <<>> ELSE <<q % ByteBase>> \o P(k + 1, q \div ByteBase)
    IN P(1, n)

\* u16/u32/u64::from_le_bytes(bs) as usize: zero-extended to the word width
FromLeBytes(bs) == [k \in 1..WordBytes |-> IF k <= Len(bs) THEN bs[k] ELSE 0]

\* w > n, for a natural number n below ByteBase^3
WordGtNat(w, n) ==
    \/ \E k \in 4..WordBytes : w[k] # 0
    \/ w[1] + ByteBase * w[2] + ByteBase * ByteBase * w[3] > n

\* the natural number a word holds, when it is below ByteBase^3
WordToNat(w) == w[1] + ByteBase * w[2] + ByteBase * ByteBase * w[3]

\* n + w in 64 bits: the wrapped sum and whether the addition overflowed
AddNatWord(n, w) ==
    LET a == NatToWord(n)
        RECURSIVE C(_)
        \* carry into byte k
        C(k) == IF k = 1 THEN 0 ELSE (a[k - 1] + w[k - 1] + C(k - 1)) \div ByteBase
    IN [sum |-> [k \in 1..WordBytes |-> (a[k] + w[k] + C(k)) % ByteBase],
        overflow |-> C(WordBytes + 1) = 1]

\* ------------------------------------------------------------ hex text
HexLower == <<"0", "1", "2", "3", "4", "5", "6", "7", "8", "9", "a", "b", "c", "d", "e", "f">>
HexUpper == <<"0", "1", "2", "3", "4", "5", "6", "7", "8", "9", "A", "B", "C", "D", "E", "F">>

\* the value of each hexadecimal digit, lower or upper case
HexTable ==
    [c \in {HexLower[d] : d \in 1..16} \cup {HexUpper[d] : d \in 1..16} |->
        IF \E d \in 1..16 : HexLower[d] = c THEN (CHOOSE d \in 1..16 : HexLower[d] = c) - 1
        ELSE (CHOOSE d \in 1..16 : HexUpper[d] = c) - 1]

\* the value of a hexadecimal digit, -1 for any other character
HexVal(c) == IF c \in DOMAIN HexTable THEN HexTable[c] ELSE -1

\* hex::encode with the two digits of each byte in the wrong order
HexEncode_swapped(bs) ==
    [k \in 1..(2 * Len(bs)) |->
        IF k % 2 = 1 THEN HexLower[(bs[(k + 1) \div 2] % 16) + 1]
        ELSE HexLower[(bs[k \div 2] \div 16) + 1]]

\* hex::encode: two lowercase digits per byte, high nibble first
HexEncode(bs) ==
    [k \in 1..(2 * Len(bs)) |->
        IF k % 2 = 1 THEN HexLower[(bs[(k + 1) \div 2] \div 16) + 1]
        ELSE HexLower[(bs[k \div 2] % 16) + 1]]

\* hex::decode: odd length is refused first, then any character that is no digit
HexDecode(s) ==
    IF Len(s) % 2 # 0 THEN [ok |-> FALSE, bytes |-> <<>>, err |-> "Odd number of digits"]
    ELSE IF \E k \in 1..Len(s) : HexVal(s[k]) < 0
    THEN [ok |-> FALSE, bytes |-> <<>>, err |-> "Invalid character"]
    ELSE [ok |-> TRUE,
          bytes |-> [k \in 1..(Len(s) \div 2) |-> 16 * HexVal(s[2 * k - 1]) + HexVal(s[2 * k])],
          err |-> ""]

\* the text taken as it is, spaces included
RemoveSpaces_kept(s) == s

\* input.replace(" ", "")
RemoveSpaces(s) == SelectSeq(s, LAMBDA c : c # " ")

\* &bytes[a..b]
Slice(bs, a, b) == SubSeq(bs, a + 1, b)

\* ------------------------------------------------------------ read_compact_size
CompactErr(at, need) ==
    [ok |-> FALSE, count |-> ZeroWord, size |-> 0,
     err |-> [msg |-> "Invalid compact size", at |-> at, need |-> NatToWord(need)]]

NoErr == [msg |-> "", at |-> 0, need |-> ZeroWord]

\* read_compact_size with the multi-byte forms read one byte early (from the marker byte on)
read_compact_size_early(bs, p) ==
    IF p >= Len(bs) THEN CompactErr(p, 1)
    ELSE LET first_byte == bs[p + 1] IN
        IF first_byte <= MaxSingleByte
        THEN [ok |-> TRUE, count |-> NatToWord(first_byte), size |-> 1, err |-> NoErr]
        ELSE IF first_byte = 253
        THEN IF p + 3 > Len(bs) THEN CompactErr(p, 3)
             ELSE [ok |-> TRUE, count |-> FromLeBytes(Slice(bs, p, p + 2)), size |-> 3,
                   err |-> NoErr]
        ELSE IF first_byte = 254
        THEN IF p + 5 > Len(bs) THEN CompactErr(p, 5)
             ELSE [ok |-> TRUE, count |-> FromLeBytes(Slice(bs, p, p + 4)), size |-> 5,
                   err |-> NoErr]
        ELSE IF p + 9 > Len(bs) THEN CompactErr(p, 9)
             ELSE [ok |-> TRUE, count |-> FromLeBytes(Slice(bs, p, p + 8)), size |-> 9,
                   err |-> NoErr]

\* lines 152-202
read_compact_size(bs, p) ==
    IF p >= Len(bs) THEN CompactErr(p, 1)
    ELSE LET first_byte == bs[p + 1] IN
        IF first_byte <= MaxSingleByte
        THEN [ok |-> TRUE, count |-> NatToWord(first_byte), size |-> 1, err |-> NoErr]
        ELSE IF first_byte = 253
        THEN IF p + 3 > Len(bs) THEN CompactErr(p, 3)
             ELSE [ok |-> TRUE, count |-> FromLeBytes(Slice(bs, p + 1, p + 3)), size |-> 3,
                   err |-> NoErr]
        ELSE IF first_byte = 254
        THEN IF p + 5 > Len(bs) THEN CompactErr(p, 5)
             ELSE [ok |-> TRUE, count |-> FromLeBytes(Slice(bs, p + 1, p + 5)), size |-> 5,
                   err |-> NoErr]
        ELSE IF p + 9 > Len(bs) THEN CompactErr(p, 9)
             ELSE [ok |-> TRUE, count |-> FromLeBytes(Slice(bs, p + 1, p + 9)), size |-> 9,
                   err |-> NoErr]

\* ------------------------------------------------------------ declared-length fields
\* `if offset + len > bytes.len() { return Err }` followed by
\* `&bytes[offset..offset + len]`, in a build with overflow checks (the sum
\* panics when it overflows) or without (the sum wraps, and the slice panics
\* when its end lies before its start).
TakeDeclared(bs, offset, len, checks) ==
    LET s == AddNatWord(offset, len) IN
    IF s.overflow /\ checks THEN [kind |-> "Panic", end |-> offset, why |-> "attempt to add with overflow"]
    ELSE IF WordGtNat(s.sum, Len(bs)) THEN [kind |-> "Err", end |-> offset, why |-> ""]
    ELSE IF WordToNat(s.sum) < offset
    THEN [kind |-> "Panic", end |-> offset, why |-> "slice index starts after its end"]
    ELSE [kind |-> "Ok", end |-> WordToNat(s.sum), why |-> ""]

\* ------------------------------------------------------------ parse_input
EmptyInput == [txid |-> <<>>, vout |-> <<>>, scriptsigsize |-> <<>>, scriptsig |-> <<>>,
               sequence |-> <<>>]

FieldErr(msg, at, need) == [msg |-> msg, at |-> at, need |-> need]

\* Result<(TxInput, usize), String>; kind "Panic" when the call unwinds
parse_input(bs, p, checks) ==
    LET fail(e) == [kind |-> "Err", input |-> EmptyInput, size |-> 0, err |-> e]
        o1 == p + TxidLen
        o2 == o1 + VoutLen
        cs == read_compact_size(bs, o2)
        o3 == o2 + cs.size
        sig == TakeDeclared(bs, o3, cs.count, checks)
        o4 == sig.end
    IN
    IF p + TxidLen > Len(bs)
    THEN fail(FieldErr("Invalid input: txid too short", p, NatToWord(TxidLen)))
    ELSE IF o1 + VoutLen > Len(bs)
    THEN fail(FieldErr("Invalid input: vout too short", o1, NatToWord(VoutLen)))
    ELSE IF ~cs.ok THEN fail(cs.err)
    ELSE IF sig.kind = "Panic"
    THEN [kind |-> "Panic", input |-> EmptyInput, size |-> 0,
          err |-> FieldErr(sig.why, o3, cs.count)]
    ELSE IF sig.kind = "Err"
    THEN fail(FieldErr("Invalid input: script_sig too short", o3, cs.count))
    ELSE IF o4 + SequenceLen > Len(bs)
    THEN fail(FieldErr("Invalid input: sequence too short", o4, NatToWord(SequenceLen)))
    ELSE [kind |-> "Ok",
          input |-> [txid |-> HexEncode(Slice(bs, p, o1)),
                     vout |-> HexEncode(Slice(bs, o1, o2)),
                     scriptsigsize |-> HexEncode(Slice(bs, o2, o3)),
                     scriptsig |-> HexEncode(Slice(bs, o3, o4)),
                     sequence |-> HexEncode(Slice(bs, o4, o4 + SequenceLen))],
          size |-> (o4 + SequenceLen) - p,
          err |-> NoErr]

\* ------------------------------------------------------------ parse_output
EmptyOutput == [amount |-> <<>>, scriptpubkeysize |-> <<>>, scriptpubkey |-> <<>>]

\* Result<(TxOutput, usize), String>; kind "Panic" when the call unwinds
parse_output(bs, p, checks) ==
    LET fail(e) == [kind |-> "Err", output |-> EmptyOutput, size |-> 0, err |-> e]
        o1 == p + AmountLen
        cs == read_compact_size(bs, o1)
        o2 == o1 + cs.size
        spk == TakeDeclared(bs, o2, cs.count, checks)
        o3 == spk.end
    IN
    IF p + AmountLen > Len(bs)
    THEN fail(FieldErr("Invalid output: amount too short", p, NatToWord(AmountLen)))
    ELSE IF ~cs.ok THEN fail(cs.err)
    ELSE IF spk.kind = "Panic"
    THEN [kind |-> "Panic", output |-> EmptyOutput, size |-> 0,
          err |-> FieldErr(spk.why, o2, cs.count)]
    ELSE IF spk.kind = "Err"
    THEN fail(FieldErr("Invalid output: script_pubkey too short", o2, cs.count))
    ELSE [kind |-> "Ok",
          output |-> [amount |-> HexEncode(Slice(bs, p, o1)),
                      scriptpubkeysize |-> HexEncode(Slice(bs, o1, o2)),
                      scriptpubkey |-> HexEncode(Slice(bs, o2, o3))],
          size |-> o3 - p,
          err |-> NoErr]

\* ------------------------------------------------------------ inputs of decode
\* payload bytes of a field, different from field to field
Fill(tag, n) == [j \in 1..n |-> (16 * tag + j) % ByteBase]

\* wire bytes are built as pairs <<byte, steers>>: steers marks the bytes the
\* decoder interprets (marker, flag, counts and lengths)
Pay(bs) == [k \in 1..Len(bs) |-> <<bs[k], FALSE>>]
Ctl(bs) == [k \in 1..Len(bs) |-> <<bs[k], TRUE>>]
BytesOf(ts) == [k \in 1..Len(ts) |-> ts[k][1]]
SteeringAt(ts) == {k \in 1..Len(ts) : ts[k][2]}

RECURSIVE Cat(_, _)
\* f(1) \o f(2) \o ... \o f(n)
Cat(f(_), n) == IF n = 0 THEN <<>> ELSE Cat(f, n - 1) \o f(n)

\* input k spends output k-1 with a scriptSig of k-1 bytes
WireInput(k) ==
    Pay(Fill(k, TxidLen)) \o Pay(<<k - 1, 0, 0, 0>>) \o Ctl(<<k - 1>>) \o Pay(Fill(4 + k, k - 1))
        \o Pay(<<253, 255, 255, 255>>)

\* output k carries a scriptPubKey of k-1 bytes
WireOutput(k) == Pay(Fill(8 + k, AmountLen)) \o Ctl(<<k - 1>>) \o Pay(Fill(10 + k, k - 1))

\* item j of a witness stack has j-1 bytes
WireItem(j) == Ctl(<<j - 1>>) \o Pay(Fill(12 + j, j - 1))

WireStack(nItems) == Ctl(<<nItems>>) \o Cat(WireItem, nItems)

\* a transaction in wire format: legacy, or segwit with a stack of nItems items per input
WireTx(segwit, nIn, nOut, nItems) ==
    LET stack(k) == WireStack(nItems) IN
    Pay(<<2, 0, 0, 0>>) \o (IF segwit THEN Ctl(<<0, 1>>) ELSE <<>>)
        \o Ctl(<<nIn>>) \o Cat(WireInput, nIn)
        \o Ctl(<<nOut>>) \o Cat(WireOutput, nOut)
        \o (IF segwit THEN Cat(stack, nIn) ELSE <<>>)
        \o Pay(<<67, 3, 14, 0>>)

WellFormed ==
    {WireTx(FALSE, nIn, nOut, 0) : nIn \in 0..MaxIn, nOut \in 0..MaxOut}
        \cup {WireTx(TRUE, c[1], c[2], c[3]) : c \in (0..MaxIn) \X (0..MaxOut) \X (0..MaxItems)}

\* one input whose scriptSig length needs the three-byte form (253 bytes)
LongScriptTx ==
    <<1, 0, 0, 0, 1>> \o Fill(1, TxidLen) \o <<0, 0, 0, 0>> \o <<253, 253, 0>>
        \o [j \in 1..253 |-> j % 251] \o <<255, 255, 255, 255>> \o <<0>> \o <<0, 0, 0, 0>>

\* a nine-byte length 0xFFFFFFFFFFFFFF00 + low on a scriptSig, a scriptPubKey or a witness item
HugeLength(low) == <<255, low, 255, 255, 255, 255, 255, 255, 255>>

HugeLengthTxs ==
    {<<1, 0, 0, 0, 1>> \o Fill(1, TxidLen) \o <<0, 0, 0, 0>> \o HugeLength(low) \o <<0, 0, 0, 0>>
        : low \in {0, 205, 206, 255}}
    \cup {<<1, 0, 0, 0, 1>> \o BytesOf(WireInput(1)) \o <<1>> \o Fill(9, AmountLen)
            \o HugeLength(low) \o <<0, 0, 0, 0>>
        : low \in {0, 191, 192, 255}}
    \cup {<<1, 0, 0, 0, 0, 1, 1>> \o BytesOf(WireInput(1)) \o <<0>> \o <<1>> \o HugeLength(low)
            \o <<0, 0, 0, 0>>
        : low \in {0, 196, 197, 255}}

ControlBytes == {0, 1, 2, 253, 254, 255}

\* a buffer cut short, or with one steering byte replaced
Cuts(bs) == {SubSeq(bs, 1, k) : k \in 0..(Len(bs) - 1)}
Overrides(ts) == {[BytesOf(ts) EXCEPT ![p] = v] : p \in SteeringAt(ts), v \in ControlBytes}

Buffers ==
    UNION {{BytesOf(ts)} \cup Cuts(BytesOf(ts)) \cup Overrides(ts) : ts \in WellFormed}
        \cup HugeLengthTxs \cup {LongScriptTx}

\* the transaction of test_btc_tx_decoder
TestInput ==
    <<"0", "2", "0", "0", "0", "0", "0", "0", "0", "0", "0", "1", "0", "1", "3", "1", "8", "1", "1", "c", "d", "3", "5", "5",
       "c", "3", "5", "7", "e", "0", "e", "0", "1", "4", "3", "7", "d", "9", "b", "c", "f", "6", "9", "0", "d", "f", "8", "2",
       "4", "e", "9", "f", "f", "7", "8", "5", "0", "1", "2", "b", "6", "1", "1", "5", "d", "f", "a", "e", "3", "d", "8", "e",
       "8", "b", "3", "6", "c", "1", "0", "1", "0", "0", "0", "0", "0", "0", "0", "0", "f", "d", "f", "f", "f", "f", "f", "f",
       "0", "2", "2", "0", "a", "1", "0", "7", "0", "0", "0", "0", "0", "0", "0", "0", "0", "0", "1", "6", "0", "0", "1", "4",
       "8", "5", "d", "7", "8", "e", "b", "7", "9", "5", "b", "d", "9", "c", "8", "a", "2", "1", "a", "f", "e", "f", "c", "8",
       "b", "6", "f", "d", "a", "e", "d", "f", "7", "1", "8", "3", "6", "8", "0", "9", "4", "c", "0", "8", "1", "0", "0", "0",
       "0", "0", "0", "0", "0", "0", "0", "0", "1", "6", "0", "0", "1", "4", "8", "4", "0", "a", "b", "1", "6", "5", "c", "9",
       "c", "2", "5", "5", "5", "d", "4", "a", "3", "1", "b", "9", "2", "0", "8", "a", "d", "8", "0", "6", "f", "8", "9", "d",
       "2", "5", "3", "5", "e", "2", "0", "2", "4", "7", "3", "0", "4", "4", "0", "2", "2", "0", "7", "b", "c", "e", "8", "6",
       "d", "4", "3", "0", "b", "5", "8", "b", "b", "6", "b", "7", "9", "e", "8", "c", "1", "b", "b", "e", "c", "d", "f", "6",
       "7", "a", "5", "3", "0", "e", "f", "f", "3", "b", "c", "6", "1", "5", "8", "1", "a", "1", "3", "9", "9", "e", "0", "b",
       "2", "8", "a", "7", "4", "1", "c", "0", "e", "e", "0", "2", "2", "0", "3", "0", "3", "d", "5", "c", "e", "9", "2", "6",
       "c", "6", "0", "b", "f", "1", "5", "5", "7", "7", "f", "2", "e", "4", "0", "7", "f", "2", "8", "a", "2", "e", "f", "8",
       "f", "e", "8", "4", "5", "3", "a", "b", "d", "4", "0", "4", "8", "b", "7", "1", "6", "e", "9", "7", "d", "b", "b", "1",
       "e", "3", "a", "8", "5", "c", "0", "1", "2", "1", "0", "2", "6", "0", "8", "2", "8", "b", "c", "7", "7", "4", "8", "6",
       "a", "5", "5", "e", "3", "b", "c", "6", "0", "3", "2", "c", "c", "b", "e", "d", "a", "9", "1", "5", "d", "9", "4", "9",
       "4", "e", "d", "a", "1", "7", "b", "4", "a", "5", "4", "d", "b", "e", "3", "b", "2", "4", "5", "0", "6", "d", "4", "0",
       "e", "4", "f", "f", "4", "3", "0", "3", "0", "e", "0", "0">>

\* the text of test_btc_tx_decoder_invalid_hex
InvalidHexInput == <<"i", "n", "v", "a", "l", "i", "d", "h", "e", "x">>

ToUpper(t) == [k \in 1..Len(t) |-> IF HexVal(t[k]) >= 10 THEN HexUpper[HexVal(t[k]) + 1] ELSE t[k]]

\* the ways a caller may write (or miswrite) the hex text of a buffer
Spellings(t) ==
    LET h == Len(t) \div 2 + 1 IN
    {ToUpper(t),
     <<" ">> \o SubSeq(t, 1, h) \o <<" ", " ">> \o SubSeq(t, h + 1, Len(t)) \o <<" ">>,
     SubSeq(t, 1, Len(t) - 1),
     SubSeq(t, 1, Len(t) - 1) \o <<" ">>,
     <<"g">> \o SubSeq(t, 2, Len(t)),
     SubSeq(t, 1, Len(t) - 1) \o <<"-">>,
     SubSeq(t, 1, h) \o <<"\t">> \o SubSeq(t, h + 1, Len(t)),
     SubSeq(t, 1, h) \o <<"x", " ">> \o SubSeq(t, h + 1, Len(t))}

Inputs ==
    {HexEncode(bs) : bs \in Buffers}
        \cup UNION {Spellings(HexEncode(BytesOf(ts))) : ts \in WellFormed}
        \cup {TestInput, InvalidHexInput, <<>>}

\* ------------------------------------------------------------ state of one decode call
VARIABLES
    input,          \* the text handed to btc_tx_decoder
    call,           \* "first", or "prefix" for a call on a truncated copy of a decoded buffer
    pc,             \* where the call stands
    bytes, pos,
    version, marker, flag, is_segwit,
    count_size, input_count, inputcount, inputs,
    output_count, outputcount, outputs,
    witness_data, witness_obj, stack_items, i, witness,
    locktime,
    result,         \* what the call returned
    iters           \* loop iterations started so far

vars ==
    <<input, call, pc, bytes, pos, version, marker, flag, is_segwit, count_size, input_count,
      inputcount, inputs, output_count, outputcount, outputs, witness_data, witness_obj,
      stack_items, i, witness, locktime, result, iters>>

\* struct BitcoinTransaction
EmptyTx ==
    [version |-> <<>>, marker |-> <<>>, flag |-> <<>>, inputcount |-> <<>>, inputs |-> <<>>,
     outputcount |-> <<>>, outputs |-> <<>>, witness |-> <<>>, locktime |-> <<>>]

NoResult == [kind |-> "None", tx |-> EmptyTx, err |-> NoErr]

\* the locals of a call that has just been entered with text t
Enter(t) ==
    /\ input = t
    /\ pc = "Start"
    /\ bytes = <<>>
    /\ pos = 0
    /\ version = <<>>
    /\ marker = <<>>
    /\ flag = <<>>
    /\ is_segwit = FALSE
    /\ count_size = 0
    /\ input_count = ZeroWord
    /\ inputcount = <<>>
    /\ inputs = <<>>
    /\ output_count = ZeroWord
    /\ outputcount = <<>>
    /\ outputs = <<>>
    /\ witness_data = <<>>
    /\ witness_obj = [stackitems |-> <<>>]
    /\ stack_items = ZeroWord
    /\ i = 0
    /\ witness = <<>>
    /\ locktime = <<>>
    /\ result = NoResult
    /\ iters = 0

Init ==
    /\ call = "first"
    /\ \E t \in Inputs : Enter(t)

\* `return Err(..)` / `?`: the call ends with an error and no record
Return(kind, e) ==
    /\ pc' = (IF kind = "Panic" THEN "Panic" ELSE "Error")
    /\ result' = [kind |-> kind, tx |-> EmptyTx, err |-> e]

Locals ==
    <<bytes, pos, version, marker, flag, is_segwit, count_size, input_count, inputcount, inputs,
      output_count, outputcount, outputs, witness_data, witness_obj, stack_items, i, witness,
      locktime>>

Fixed == <<input, call>>

\* lines 38-51: normalise the text, decode it, take the version
ReadVersion ==
    /\ pc = "Start"
    /\ LET hex_input == RemoveSpaces(input)
           d == HexDecode(hex_input)
       IN
       IF ~d.ok
       THEN /\ Return("Err", FieldErr("Invalid hex", 0, ZeroWord))
            /\ UNCHANGED Locals
       ELSE IF Len(d.bytes) < VersionLen
       THEN /\ bytes' = d.bytes
            /\ Return("Err", FieldErr("Input too short for version", 0, NatToWord(VersionLen)))
            /\ UNCHANGED <<count_size, pos, version, marker, flag, is_segwit, input_count, inputcount,
                           inputs, output_count, outputcount, outputs, witness_data,
                           witness_obj, stack_items, i, witness, locktime>>
       ELSE /\ bytes' = d.bytes
            /\ version' = HexEncode(Slice(d.bytes, pos, pos + VersionLen))
            /\ pos' = pos + VersionLen
            /\ pc' = "VersionRead"
            /\ UNCHANGED <<count_size, marker, flag, is_segwit, input_count, inputcount, inputs,
                           output_count, outputcount, outputs, witness_data, witness_obj,
                           stack_items, i, witness, locktime, result>>
    /\ UNCHANGED <<Fixed, iters>>

\* the segwit test looking at the marker byte only
HasMarkerFlag_markeronly(bs, p) == p + MarkerFlagLen <= Len(bs) /\ bs[p + 1] = 0

\* line 55: the test that decides segwit
HasMarkerFlag(bs, p) == p + MarkerFlagLen <= Len(bs) /\ bs[p + 1] = 0 /\ bs[p + 2] = 1

\* lines 53-62
CheckMarkerFlag ==
    /\ pc = "VersionRead"
    /\ IF HasMarkerFlag(bytes, pos)
       THEN /\ marker' = HexEncode(Slice(bytes, pos, pos + 1))
            /\ flag' = HexEncode(Slice(bytes, pos + 1, pos + 2))
            /\ pos' = pos + MarkerFlagLen
            /\ is_segwit' = TRUE
       ELSE /\ marker' = <<>>
            /\ flag' = <<>>
            /\ is_segwit' = FALSE
            /\ pos' = pos
    /\ pc' = "MarkerFlagChecked"
    /\ UNCHANGED <<Fixed, count_size, bytes, version, input_count, inputcount, inputs, output_count,
                   outputcount, outputs, witness_data, witness_obj, stack_items, i, witness,
                   locktime, result, iters>>

\* lines 64-68
ReadInputCount ==
    /\ pc = "MarkerFlagChecked"
    /\ LET r == read_compact_size(bytes, pos) IN
       IF ~r.ok
       THEN /\ Return("Err", r.err)
            /\ UNCHANGED <<count_size, input_count, inputcount, pos>>
       ELSE /\ input_count' = r.count
            /\ count_size' = r.size
            /\ inputcount' = HexEncode(Slice(bytes, pos, pos + r.size))
            /\ pos' = pos + r.size
            /\ pc' = "InputLoop"
            /\ UNCHANGED result
    /\ UNCHANGED <<Fixed, bytes, version, marker, flag, is_segwit, inputs, output_count,
                   outputcount, outputs, witness_data, witness_obj, stack_items, i, witness,
                   locktime, iters>>

\* lines 72-76: one iteration of `for _ in 0..input_count`
ParseInputIter ==
    /\ pc = "InputLoop"
    /\ WordGtNat(input_count, Len(inputs))
    /\ \E checks \in BOOLEAN :
       LET r == parse_input(bytes, pos, checks) IN
       IF r.kind # "Ok"
       THEN /\ Return(r.kind, r.err)
            /\ UNCHANGED <<inputs, pos>>
       ELSE /\ inputs' = Append(inputs, r.input)
            /\ pos' = pos + r.size
            /\ UNCHANGED <<pc, result>>
    /\ iters' = iters + 1
    /\ UNCHANGED <<Fixed, count_size, bytes, version, marker, flag, is_segwit, input_count, inputcount,
                   output_count, outputcount, outputs, witness_data, witness_obj, stack_items,
                   i, witness, locktime>>

\* line 72: the range 0..input_count is exhausted
EndInputs ==
    /\ pc = "InputLoop"
    /\ ~WordGtNat(input_count, Len(inputs))
    /\ pc' = "InputsRead"
    /\ UNCHANGED <<Fixed, Locals, result, iters>>

\* lines 78-82
ReadOutputCount ==
    /\ pc = "InputsRead"
    /\ LET r == read_compact_size(bytes, pos) IN
       IF ~r.ok
       THEN /\ Return("Err", r.err)
            /\ UNCHANGED <<count_size, output_count, outputcount, pos>>
       ELSE /\ output_count' = r.count
            /\ count_size' = r.size
            /\ outputcount' = HexEncode(Slice(bytes, pos, pos + r.size))
            /\ pos' = pos + r.size
            /\ pc' = "OutputLoop"
            /\ UNCHANGED result
    /\ UNCHANGED <<Fixed, bytes, version, marker, flag, is_segwit, input_count, inputcount,
                   inputs, outputs, witness_data, witness_obj, stack_items, i, witness,
                   locktime, iters>>

\* lines 86-90: one iteration of `for _ in 0..output_count`
ParseOutputIter ==
    /\ pc = "OutputLoop"
    /\ WordGtNat(output_count, Len(outputs))
    /\ \E checks \in BOOLEAN :
       LET r == parse_output(bytes, pos, checks) IN
       IF r.kind # "Ok"
       THEN /\ Return(r.kind, r.err)
            /\ UNCHANGED <<outputs, pos>>
       ELSE /\ outputs' = Append(outputs, r.output)
            /\ pos' = pos + r.size
            /\ UNCHANGED <<pc, result>>
    /\ iters' = iters + 1
    /\ UNCHANGED <<Fixed, count_size, bytes, version, marker, flag, is_segwit, input_count, inputcount,
                   inputs, output_count, outputcount, witness_data, witness_obj, stack_items,
                   i, witness, locktime>>

\* line 86: the range 0..output_count is exhausted
EndOutputs ==
    /\ pc = "OutputLoop"
    /\ ~WordGtNat(output_count, Len(outputs))
    /\ pc' = "OutputsRead"
    /\ UNCHANGED <<Fixed, Locals, result, iters>>

\* lines 93-94: the witness section is read only for a segwit transaction
BeginWitness ==
    /\ pc = "OutputsRead"
    /\ is_segwit
    /\ witness_data' = <<>>
    /\ pc' = "WitnessLoop"
    /\ UNCHANGED <<Fixed, count_size, bytes, pos, version, marker, flag, is_segwit, input_count,
                   inputcount, inputs, output_count, outputcount, outputs, witness_obj,
                   stack_items, i, witness, locktime, result, iters>>

\* lines 95-103: one iteration of `for _ in 0..input_count` starts a stack
ReadStackItems ==
    /\ pc = "WitnessLoop"
    /\ WordGtNat(input_count, Len(witness_data))
    /\ LET r == read_compact_size(bytes, pos) IN
       IF ~r.ok
       THEN /\ Return("Err", r.err)
            /\ UNCHANGED <<stack_items, witness_obj, pos, i>>
       ELSE /\ stack_items' = r.count
            /\ witness_obj' = [stackitems |-> HexEncode(Slice(bytes, pos, pos + r.size))]
            /\ pos' = pos + r.size
            /\ i' = 0
            /\ pc' = "ItemLoop"
            /\ UNCHANGED result
    /\ iters' = iters + 1
    /\ UNCHANGED <<Fixed, count_size, bytes, version, marker, flag, is_segwit, input_count, inputcount,
                   inputs, output_count, outputcount, outputs, witness_data, witness,
                   locktime>>

\* item keys counted from one
ItemKey_onebased(n) == ToString(n + 1)

\* i.to_string()
ItemKey(n) == ToString(n)

\* lines 105-122: one iteration of `for i in 0..stack_items`
ReadWitnessItem ==
    /\ pc = "ItemLoop"
    /\ WordGtNat(stack_items, i)
    /\ \E checks \in BOOLEAN :
       LET r == read_compact_size(bytes, pos)
           p1 == pos + r.size
           item == TakeDeclared(bytes, p1, r.count, checks)
       IN
       IF ~r.ok
       THEN /\ Return("Err", r.err)
            /\ UNCHANGED <<witness_obj, pos, i>>
       ELSE IF item.kind = "Panic"
       THEN /\ Return("Panic", FieldErr(item.why, p1, r.count))
            /\ pos' = p1
            /\ UNCHANGED <<witness_obj, i>>
       ELSE IF item.kind = "Err"
       THEN /\ Return("Err", FieldErr("Invalid witness data", p1, r.count))
            /\ pos' = p1
            /\ UNCHANGED <<witness_obj, i>>
       ELSE /\ witness_obj' =
                   (ItemKey(i) :> [size |-> HexEncode(Slice(bytes, pos, p1)),
                                   item |-> HexEncode(Slice(bytes, p1, item.end))])
                       @@ witness_obj
            /\ pos' = item.end
            /\ i' = i + 1
            /\ UNCHANGED <<pc, result>>
    /\ iters' = iters + 1
    /\ UNCHANGED <<Fixed, count_size, bytes, version, marker, flag, is_segwit, input_count, inputcount,
                   inputs, output_count, outputcount, outputs, witness_data, stack_items,
                   witness, locktime>>

\* line 123: the stack is complete
PushStack ==
    /\ pc = "ItemLoop"
    /\ ~WordGtNat(stack_items, i)
    /\ witness_data' = Append(witness_data, witness_obj)
    /\ pc' = "WitnessLoop"
    /\ UNCHANGED <<Fixed, count_size, bytes, pos, version, marker, flag, is_segwit, input_count,
                   inputcount, inputs, output_count, outputcount, outputs, witness_obj,
                   stack_items, i, witness, locktime, result, iters>>

\* line 125: every input has its stack
EndWitness ==
    /\ pc = "WitnessLoop"
    /\ ~WordGtNat(input_count, Len(witness_data))
    /\ witness' = witness_data
    /\ pc' = "WitnessRead"
    /\ UNCHANGED <<Fixed, count_size, bytes, pos, version, marker, flag, is_segwit, input_count,
                   inputcount, inputs, output_count, outputcount, outputs, witness_data,
                   witness_obj, stack_items, i, locktime, result, iters>>

\* the locktime check off by one (`pos + 4 > bytes.len() + 1`): with three bytes
\* left the check passes and the slice leaves the buffer
ReadLocktime_offbyone ==
    /\ \/ pc = "WitnessRead"
       \/ pc = "OutputsRead" /\ ~is_segwit
    /\ witness' = (IF is_segwit THEN witness ELSE <<>>)
    /\ IF pos + LocktimeLen > Len(bytes) + 1
       THEN /\ Return("Err", FieldErr("Input too short for locktime", pos, NatToWord(LocktimeLen)))
            /\ UNCHANGED locktime
       ELSE IF pos + LocktimeLen > Len(bytes)
       THEN /\ Return("Panic", FieldErr("range end index out of range", pos, NatToWord(LocktimeLen)))
            /\ UNCHANGED locktime
       ELSE /\ locktime' = HexEncode(Slice(bytes, pos, pos + LocktimeLen))
            /\ pc' = "LocktimeRead"
            /\ UNCHANGED result
    /\ UNCHANGED <<input, call, count_size, bytes, pos, version, marker, flag, is_segwit,
                   input_count, inputcount, inputs, output_count, outputcount, outputs,
                   witness_data, witness_obj, stack_items, i, iters>>

\* lines 126-134: (no witness for a legacy transaction, then) the locktime
ReadLocktime ==
    /\ \/ pc = "WitnessRead"
       \/ pc = "OutputsRead" /\ ~is_segwit
    /\ witness' = (IF is_segwit THEN witness ELSE <<>>)
    /\ IF pos + LocktimeLen > Len(bytes)
       THEN /\ Return("Err", FieldErr("Input too short for locktime", pos, NatToWord(LocktimeLen)))
            /\ UNCHANGED locktime
       ELSE /\ locktime' = HexEncode(Slice(bytes, pos, pos + LocktimeLen))
            /\ pc' = "LocktimeRead"
            /\ UNCHANGED result
    /\ UNCHANGED <<Fixed, count_size, bytes, pos, version, marker, flag, is_segwit, input_count,
                   inputcount, inputs, output_count, outputcount, outputs, witness_data,
                   witness_obj, stack_items, i, iters>>

\* lines 136-149: the record is assembled and returned
Assemble ==
    /\ pc = "LocktimeRead"
    /\ result' = [kind |-> "Ok",
                  tx |-> [version |-> version, marker |-> marker, flag |-> flag,
                          inputcount |-> inputcount, inputs |-> inputs,
                          outputcount |-> outputcount, outputs |-> outputs,
                          witness |-> witness, locktime |-> locktime],
                  err |-> NoErr]
    /\ pc' = "Done"
    /\ UNCHANGED <<Fixed, Locals, iters>>

Next ==
    \/ ReadVersion
    \/ CheckMarkerFlag
    \/ ReadInputCount
    \/ ParseInputIter
    \/ EndInputs
    \/ ReadOutputCount
    \/ ParseOutputIter
    \/ EndOutputs
    \/ BeginWitness
    \/ ReadStackItems
    \/ ReadWitnessItem
    \/ PushStack
    \/ EndWitness
    \/ ReadLocktime
    \/ Assemble

Spec == Init /\ [][Next]_vars

\* ------------------------------------------------------------ read_compact_size on its own
\* tails of a compact-size field: all zero, all 0xFF, 253 in two bytes, 65536 in
\* four bytes, and two runs of distinct bytes
TailByte(m, j) ==
    CASE m = 1 -> 0
      [] m = 2 -> 255
      [] m = 3 -> (IF j = 1 THEN 253 ELSE 0)
      [] m = 4 -> (IF j = 3 THEN 1 ELSE 0)
      [] m = 5 -> j
      [] OTHER -> ByteBase - j

CompactBuffers ==
    {<<first>> \o [j \in 1..n |-> TailByte(m, j)] :
        first \in {0, 1, 252, 253, 254, 255}, n \in 0..MaxTail, m \in 1..6}

\* a caller about to read a compact size at any cursor of any of the buffers
InitCompact ==
    /\ call = "first"
    /\ \E bs \in CompactBuffers, p \in 0..(MaxTail + 1) :
        /\ p <= Len(bs)
        /\ bytes = bs
        /\ pos = p
    /\ input = HexEncode(bytes)
    /\ pc = "CallCompact"
    /\ version = <<>>
    /\ marker = <<>>
    /\ flag = <<>>
    /\ is_segwit = FALSE
    /\ count_size = 0
    /\ input_count = ZeroWord
    /\ inputcount = <<>>
    /\ inputs = <<>>
    /\ output_count = ZeroWord
    /\ outputcount = <<>>
    /\ outputs = <<>>
    /\ witness_data = <<>>
    /\ witness_obj = [stackitems |-> <<>>]
    /\ stack_items = ZeroWord
    /\ i = 0
    /\ witness = <<>>
    /\ locktime = <<>>
    /\ result = NoResult
    /\ iters = 0

\* `let (input_count, count_size) = read_compact_size(&bytes, pos)?;`
CallReadCompactSize ==
    /\ pc = "CallCompact"
    /\ LET r == read_compact_size(bytes, pos) IN
       IF ~r.ok
       THEN /\ Return("Err", r.err)
            /\ UNCHANGED <<count_size, input_count>>
       ELSE /\ input_count' = r.count
            /\ count_size' = r.size
            /\ pc' = "CompactRead"
            /\ UNCHANGED result
    /\ UNCHANGED <<Fixed, bytes, pos, version, marker, flag, is_segwit, inputcount, inputs,
                   output_count, outputcount, outputs, witness_data, witness_obj, stack_items,
                   i, witness, locktime, iters>>

NextCompact == CallReadCompactSize

SpecCompact == InitCompact /\ [][NextCompact]_vars

\* the width the first byte of a compact size announces
WidthOf(b) == IF b <= 252 THEN 1 ELSE IF b = 253 THEN 3 ELSE IF b = 254 THEN 5 ELSE 9

\* C1: read_compact_size succeeds exactly when the bytes the first byte announces are
\* in the buffer, and then returns width 1, 3, 5 or 9 as the first byte alone decides,
\* with the count the first byte itself (width 1) or the following 2, 4 or 8 bytes read
\* least significant byte first; 0 and 252 take width 1, 253 width 3, 65536 width 5.
C1_CompactSize ==
    LET avail == pos < Len(bytes) /\ pos + WidthOf(bytes[pos + 1]) <= Len(bytes)
        b == bytes[pos + 1]
        n == WordToNat(input_count)
        high == \E k \in 4..WordBytes : input_count[k] # 0
    IN
    /\ pc = "CompactRead" =>
        /\ avail
        /\ count_size \in {1, 3, 5, 9}
        /\ count_size = WidthOf(b)
        /\ \A k \in 1..WordBytes :
            input_count[k] =
                (IF count_size = 1 THEN (IF k = 1 THEN b ELSE 0)
                 ELSE IF k < count_size THEN bytes[pos + 1 + k] ELSE 0)
        /\ b = 0 => n = 0 /\ ~high /\ count_size = 1
        /\ b = 252 => n = 252 /\ ~high /\ count_size = 1
        /\ (b = 253 /\ bytes[pos + 2] = 253 /\ bytes[pos + 3] = 0) =>
            n = 253 /\ ~high /\ count_size = 3
        /\ (b = 254 /\ Slice(bytes, pos + 1, pos + 5) = <<0, 0, 1, 0>>) =>
            n = 65536 /\ ~high /\ count_size = 5
    /\ pc = "Error" => ~avail

C1_Witness ==
    /\ pc = "CompactRead"
    /\ count_size = 5
    /\ WordToNat(input_count) = 65536
    /\ \A k \in 4..WordBytes : input_count[k] = 0

\* ------------------------------------------------------------ a second call on a prefix
\* the caller hands decode a truncated copy of a buffer that has just decoded with
\* its locktime ending at the last byte
CallTruncated ==
    /\ pc = "Done"
    /\ call = "first"
    /\ pos + LocktimeLen = Len(bytes)
    /\ call' = "prefix"
    /\ \E k \in 0..(Len(bytes) - 1) :
        /\ input' = HexEncode(SubSeq(bytes, 1, k))
        /\ pc' = "Start"
        /\ bytes' = <<>>
        /\ pos' = 0
        /\ version' = <<>>
        /\ marker' = <<>>
        /\ flag' = <<>>
        /\ is_segwit' = FALSE
        /\ count_size' = 0
        /\ input_count' = ZeroWord
        /\ inputcount' = <<>>
        /\ inputs' = <<>>
        /\ output_count' = ZeroWord
        /\ outputcount' = <<>>
        /\ outputs' = <<>>
        /\ witness_data' = <<>>
        /\ witness_obj' = [stackitems |-> <<>>]
        /\ stack_items' = ZeroWord
        /\ i' = 0
        /\ witness' = <<>>
        /\ locktime' = <<>>
        /\ result' = NoResult
        /\ iters' = 0

NextTrunc == Next \/ CallTruncated

SpecTrunc == Init /\ [][NextTrunc]_vars

\* ------------------------------------------------------------ claims
\* the test of line 55, restated on the decoded buffer
MarkerFlagPresent == Len(bytes) >= 6 /\ bytes[5] = 0 /\ bytes[6] = 1

PastMarkerFlag ==
    pc \in {"MarkerFlagChecked", "InputLoop", "InputsRead", "OutputLoop", "OutputsRead",
            "WitnessLoop", "ItemLoop", "WitnessRead", "LocktimeRead", "Done"}

\* C2: the transaction is treated as segwit exactly when bytes 4 and 5 exist and are
\* 0x00, 0x01; then marker is "00", flag "01" and the cursor moves from 4 to 6;
\* otherwise the cursor stays at 4, marker and flag are empty, and a returned record
\* has an empty witness sequence whatever its input count.
C2_SegwitPositional ==
    /\ PastMarkerFlag => (is_segwit <=> MarkerFlagPresent)
    /\ pc = "MarkerFlagChecked" =>
        IF MarkerFlagPresent
        THEN marker = <<"0", "0">> /\ flag = <<"0", "1">> /\ pos = 6
        ELSE marker = <<>> /\ flag = <<>> /\ pos = 4
    /\ pc = "Done" =>
        IF MarkerFlagPresent
        THEN result.tx.marker = <<"0", "0">> /\ result.tx.flag = <<"0", "1">>
        ELSE result.tx.marker = <<>> /\ result.tx.flag = <<>> /\ result.tx.witness = <<>>

C2_Witness ==
    /\ pc = "Done"
    /\ ~MarkerFlagPresent
    /\ Len(result.tx.inputs) = 2
    /\ result.tx.witness = <<>>

\* C3: every proper prefix of a buffer that decoded with its locktime ending at the
\* last byte ends in an error: no record, no panic.
C3_TruncationDetected ==
    call = "prefix" =>
        /\ pc \notin {"LocktimeRead", "Done", "Panic"}
        /\ result.kind \in {"None", "Err"}
        /\ result.tx = EmptyTx
        /\ (pc = "Error" <=> result.kind = "Err")

C3_Witness ==
    /\ call = "prefix"
    /\ pc = "Error"
    /\ result.err.msg = "Invalid input: script_sig too short"

\* the hex fields of a witness stack in wire order: stackitems, then size and item of
\* each item in index order
StackText(obj) ==
    LET n == Cardinality(DOMAIN obj) - 1
        item(k) == obj[ToString(k - 1)].size \o obj[ToString(k - 1)].item
    IN obj.stackitems \o Cat(item, n)

\* the hex fields of a record in wire order
WireText(tx) ==
    LET in(k) == tx.inputs[k].txid \o tx.inputs[k].vout \o tx.inputs[k].scriptsigsize
                    \o tx.inputs[k].scriptsig \o tx.inputs[k].sequence
        out(k) == tx.outputs[k].amount \o tx.outputs[k].scriptpubkeysize
                    \o tx.outputs[k].scriptpubkey
        st(k) == StackText(tx.witness[k])
    IN tx.version \o tx.marker \o tx.flag \o tx.inputcount \o Cat(in, Len(tx.inputs))
        \o tx.outputcount \o Cat(out, Len(tx.outputs)) \o Cat(st, Len(tx.witness))
        \o tx.locktime

\* C4 as claimed: the fields of a returned record, concatenated in wire order,
\* reproduce the whole decoded buffer, no byte left over after locktime.
C4_RoundTripWhole ==
    pc = "Done" =>
        LET d == HexDecode(WireText(result.tx)) IN d.ok /\ d.bytes = bytes

\* C4 as amended: the fields of a returned record, concatenated in wire order,
\* reproduce the buffer byte for byte from its first byte to the last byte of
\* locktime; bytes after locktime, which decode accepts, are in no field.
C4_RoundTripToLocktime ==
    pc = "Done" =>
        LET d == HexDecode(WireText(result.tx)) IN
        /\ d.ok
        /\ Len(d.bytes) <= Len(bytes)
        /\ d.bytes = SubSeq(bytes, 1, Len(d.bytes))
        /\ result.tx.locktime = HexEncode(SubSeq(bytes, Len(d.bytes) - 3, Len(d.bytes)))

C4_Witness ==
    /\ pc = "Done"
    /\ Len(result.tx.witness) = 2
    /\ Cardinality(DOMAIN result.tx.witness[2]) = 3
    /\ Len(WireText(result.tx)) = 2 * Len(bytes)

\* the count a compact-size field of a record spells
Spelled(field) == read_compact_size(HexDecode(field).bytes, 0).count

\* the number of bytes the hex fields of a record entry stand for
InputBytes(e) ==
    (Len(e.txid) + Len(e.vout) + Len(e.scriptsigsize) + Len(e.scriptsig) + Len(e.sequence)) \div 2
OutputBytes(e) == (Len(e.amount) + Len(e.scriptpubkeysize) + Len(e.scriptpubkey)) \div 2

RECURSIVE SumTo(_, _)
SumTo(f(_), n) == IF n = 0 THEN 0 ELSE SumTo(f, n - 1) + f(n)

\* C5: in a returned record inputs has as many entries as the input count spells and
\* outputs as many as the output count, each entry where the entries before it end;
\* a segwit record has one witness stack per input, and each stack holds exactly the
\* items "0" .. "count-1" its stackitems count spells, and no other item key.
C5_CountsMatch ==
    pc = "Done" =>
        LET tx == result.tx
            inSize(k) == InputBytes(tx.inputs[k])
            outSize(k) == OutputBytes(tx.outputs[k])
            inStart(k) ==
                (Len(tx.version) + Len(tx.marker) + Len(tx.flag) + Len(tx.inputcount)) \div 2
                    + SumTo(inSize, k - 1)
            outStart(k) ==
                inStart(Len(tx.inputs) + 1) + Len(tx.outputcount) \div 2 + SumTo(outSize, k - 1)
        IN
        /\ Spelled(tx.inputcount) = NatToWord(Len(tx.inputs))
        /\ Spelled(tx.outputcount) = NatToWord(Len(tx.outputs))
        /\ \A k \in 1..Len(tx.inputs) :
            tx.inputs[k].txid = HexEncode(Slice(bytes, inStart(k), inStart(k) + TxidLen))
        /\ \A k \in 1..Len(tx.outputs) :
            tx.outputs[k].amount = HexEncode(Slice(bytes, outStart(k), outStart(k) + AmountLen))
        /\ Len(tx.witness) = (IF tx.marker # <<>> THEN Len(tx.inputs) ELSE 0)
        /\ \A k \in 1..Len(tx.witness) :
            LET n == Spelled(tx.witness[k].stackitems) IN
            /\ ~WordGtNat(n, Len(bytes))
            /\ DOMAIN tx.witness[k] =
                {"stackitems"} \cup {ToString(j) : j \in 0..(WordToNat(n) - 1)}

C5_Witness ==
    /\ pc = "Done"
    /\ Len(result.tx.inputs) = 2
    /\ Len(result.tx.outputs) = 2
    /\ Len(result.tx.witness) = 2
    /\ DOMAIN result.tx.witness[2] = {"stackitems", "0", "1"}

\* whether a text, once its spaces are dropped, is hexadecimal: an even number of
\* characters, each a digit
HexDigit ==
    {"0", "1", "2", "3", "4", "5", "6", "7", "8", "9", "a", "b", "c", "d", "e", "f", "A", "B",
     "C", "D", "E", "F"}
Spaces(t) == Cardinality({k \in 1..Len(t) : t[k] = " "})
OnlyDigits(t) == \A k \in 1..Len(t) : t[k] \in HexDigit \cup {" "}
IsHexText(t) == (Len(t) - Spaces(t)) % 2 = 0 /\ OnlyDigits(t)

BoundsFailure == pc \in {"Error", "Panic"} /\ result.err.msg # "Invalid hex"

\* C7: a decode that fails on a bounds violation returns one error, the error of the
\* first field in wire order that does not fit in the rest of the buffer: the fields
\* before it fitted, nothing after it is read, and no record is returned.
C7_FirstMisfitError ==
    BoundsFailure =>
        /\ pc = "Error"
        /\ result.kind = "Err"
        /\ result.tx = EmptyTx
        /\ pos <= result.err.at
        /\ result.err.at <= Len(bytes)
        /\ WordGtNat(result.err.need, Len(bytes) - result.err.at)

\* C8: every call ends with a record or with an error value; no declared length, up
\* to 2^64-1, makes cursor + length overflow or a slice leave the buffer (no panic).
C8_NoPanic ==
    /\ pc # "Panic"
    /\ result.kind \in {"None", "Ok", "Err"}

\* the phase of the decode a control point belongs to
Phase(p) ==
    CASE p \in {"MarkerFlagChecked", "InputLoop"} -> "MarkerFlagChecked"
      [] p \in {"InputsRead", "OutputLoop"} -> "InputsRead"
      [] p \in {"OutputsRead", "WitnessLoop", "ItemLoop"} -> "OutputsRead"
      [] OTHER -> p

\* C9: the phases follow one another in the one order Start, VersionRead,
\* MarkerFlagChecked, InputsRead, OutputsRead, WitnessRead (exactly when segwit),
\* LocktimeRead, Done; a bounds failure moves to the terminal Error state, with no
\* record; nothing else happens.
C9_Step ==
    LET a == Phase(pc)
        b == Phase(pc')
    IN
    \/ a = b /\ a \notin {"Done", "Error"}
    \/ b = "Error" /\ a \notin {"Done", "Error"} /\ result'.kind = "Err" /\ result'.tx = EmptyTx
    \/ a = "Start" /\ b = "VersionRead"
    \/ a = "VersionRead" /\ b = "MarkerFlagChecked"
    \/ a = "MarkerFlagChecked" /\ b = "InputsRead"
    \/ a = "InputsRead" /\ b = "OutputsRead"
    \/ a = "OutputsRead" /\ b = "WitnessRead" /\ is_segwit
    \/ a = "OutputsRead" /\ b = "LocktimeRead" /\ ~is_segwit
    \/ a = "WitnessRead" /\ b = "LocktimeRead"
    \/ a = "LocktimeRead" /\ b = "Done" /\ result'.kind = "Ok"

C9_PhaseOrder == [][C9_Step]_vars

\* C10: the cursor never moves backwards; every loop iteration advances it by at
\* least one byte or ends the decode with an error; so a decode ends, in Done or
\* Error and in no other way, within as many iterations as the buffer has bytes.
C10_Step ==
    /\ pos' >= pos
    /\ iters' > iters => (pos' > pos \/ pc' = "Error")
    /\ iters' <= Len(bytes')
    /\ pc' # "Panic"

C10_Progress == [][C10_Step]_vars

====
